---- MODULE Spec2Model ----
(***************************************************************************)
(* Session and media-transport layer of the Hinglish chat client:          *)
(*   - HinglishChatbot page (src/unnamed/part_000): WebSocket lifecycle    *)
(*     with auto-reconnect, text and audio turn submission, the receive    *)
(*     handler and the transcript;                                         *)
(*   - VoiceRecorder component (src/unnamed/part_001): microphone          *)
(*     permission, capture sessions and their resources.                   *)
(* Every handler of the source is one action.  Asynchronous completions    *)
(* (socket events, the reconnect timer, getUserMedia, the MediaRecorder    *)
(* stop task, FileReader.onloadend) are separate actions that interleave   *)
(* with the user's actions, as they do on the browser's event loop.        *)
(***************************************************************************)
EXTENDS Integers, Sequences, FiniteSets, TLC

(* ------------------------------ bounds -------------------------------- *)
\* WebSocket objects that exist at the same time.
MaxSockets == 2
\* Reconnect timers (setTimeout handles) pending at the same time.
MaxTimers == 2
\* Turns (text or audio submissions) in one behaviour.
MaxTurns == 2
\* Capture attempts (startRecording calls that got a device stream) in one behaviour.
MaxSessions == 2
\* requestMicrophonePermission calls awaiting the user's answer at the same time.
MaxPermissionRequests == 2
\* Clips playing at the same time when the user asks for a replay.
MaxClips == 2
\* Milliseconds the clock advances in one behaviour.
MaxClock == 2
\* Characters of a text given to the codec.
MaxTextLen == 2
\* Frequency bins of the analyser (frequencyBinCount, part_001:64-65).
BinCount == 2

(* ----------------------------- vocabulary ----------------------------- *)
SocketIds == 1..MaxSockets
NoSocket == 0

\* Texts the user can have in the textarea; "" and " " are blank after trim().
InputTexts == {"", " ", "hello"}
\* A trim that removes nothing.
TrimNothing(t) == t
\* String.prototype.trim on the texts of the model.
Trim(t) == IF t = " " THEN "" ELSE t
\* Texts the quick-start topic buttons put in the textarea (part_000:440-472).
TopicTexts == {"I want to talk about Stress & anxiety"}

Languages == <<"hinglish", "hi", "en">>
LanguageSet == {Languages[i] : i \in 1..Len(Languages)}
ConversationModes == {"guidance_counselor", "conversational"}

\* Platforms: which of the encodings MediaRecorder.isTypeSupported accepts
\* (Chromium and Firefox; Safari; a platform that accepts none of the list).
CapabilityTables ==
    {{"audio/webm;codecs=opus", "audio/webm"}, {"audio/mp4"}, {}}
\* Sizes of the data a MediaRecorder delivers when it stops.
ChunkSizes == {0, 1}

\* Texts the server answers with.
ResponseTexts == {"Hi there"}
ServerErrors == {"overloaded"}
\* The base64 audio of an answer; "" stands for a payload without audio_response.
NoAudio == ""
\* Clips the browser can decode (a RIFF/WAVE file) and all clips the server sends.
DecodableClips == {"UklGRg"}
AudioClips == DecodableClips \cup {"AAAA"}

VARIABLES
    \* page lifecycle and environment
    lifecycle,          \* "init" (effects not run yet), "mounted", "unmounted"
    wsUrlOk,            \* whether new WebSocket(wsUrl) succeeds for the configured URL
    now,                \* Date.now(): the clock, in milliseconds since the page loaded
    \* connection (part_000:52-98)
    connectionStatus,   \* useState: "disconnected" | "connecting" | "connected"
    sockets,            \* the WebSocket objects: readyState and the envelopes sent and
                        \*   not answered yet, each with its turn's number and whether
                        \*   the session was idle when it was submitted (history)
    socketRef,          \* socketRef.current: a socket id, or NoSocket for null
    reconnectTimers,    \* pending setTimeout(connectWebSocket, 3000) handles
    \* session (part_000:14-21, 106-189)
    messages,           \* the transcript
    inputText,
    isProcessing,
    currentLanguage,
    conversationMode,
    readers,            \* FileReaders of sendAudioMessage that have not fired onloadend
    nextTurn,           \* number of the next turn (history variable)
    \* recorder (part_001:5-15)
    supportedTypes,     \* the platform's MediaRecorder.isTypeSupported table
    hasPermission,      \* useState: "null" | "true" | "false"
    permissionRequests, \* requestMicrophonePermission calls awaiting getUserMedia
    isRecording,
    starting,           \* startRecording calls awaiting getUserMedia
    sessions,           \* capture attempts that got a device stream, and their resources
    mediaRecorderRef,   \* the refs hold the number of the session whose object they
    audioChunksRef,     \*   point to, NoSession for null
    audioContextRef,
    animationFrameRef,
    intervalRef,
    \* playback (part_000:21, 192-201; ChatMessage.js:6-20)
    audioEnabled,        \* useState of the page
    handlerAudioEnabled, \* audioEnabled in the closure of the handleSocketMessage
                         \*   that connectWebSocket binds to onmessage
    canPlay,             \* whether the browser lets audio.play() start a clip
    playing,             \* the Audio elements that are playing, in start order
    isPlayingAudio,      \* the transcript indexes of the ChatMessages whose
                         \*   isPlayingAudio is true
    \* codec (part_000:107, 159-164)
    codecTurn,           \* the envelope object given to JSON.stringify
    wire,                \* the text JSON.stringify returned, character by character
    parsed,              \* what JSON.parse made of the text
    \* history
    turnLog,             \* the send decisions taken so far (part_000:158, 179): the
                         \*   turn and whether its envelope was written to the socket
    \* level meter (part_001:7, 69-75)
    audioLevel           \* useState of the recorder, in units of 1/LevelUnit percent

connVars == <<connectionStatus, sockets, socketRef, reconnectTimers>>
sessVars == <<messages, inputText, isProcessing, readers, nextTurn>>
prefVars == <<currentLanguage, conversationMode>>
envVars  == <<lifecycle, wsUrlOk, supportedTypes, now>>
permVars == <<hasPermission, permissionRequests>>
refVars  == <<mediaRecorderRef, audioChunksRef, audioContextRef, animationFrameRef,
              intervalRef>>
recVars  == <<isRecording, starting, sessions, refVars>>
playVars == <<audioEnabled, handlerAudioEnabled, canPlay, playing, isPlayingAudio>>
codecVars == <<codecTurn, wire, parsed>>
histVars == <<turnLog>>
levelVars == <<audioLevel>>
vars == <<envVars, connVars, sessVars, prefVars, permVars, recVars, playVars, codecVars,
          histVars, levelVars>>

(* ------------------------------ helpers ------------------------------- *)
\* A state setter of an unmounted component is ignored by React.
SetState(cur, new) == IF lifecycle = "unmounted" THEN cur ELSE new

IdleSocket == [readyState |-> "NONE", sent |-> <<>>]

ReadyState(s) == IF s = NoSocket THEN "NONE" ELSE sockets[s].readyState

\* socketRef.current && socketRef.current.readyState === WebSocket.OPEN
SocketOpen == socketRef # NoSocket /\ sockets[socketRef].readyState = "OPEN"

\* A closed socket nothing refers to any more is garbage.
Forget(socks, s) ==
    IF s # NoSocket /\ socks[s].readyState = "CLOSED"
    THEN [socks EXCEPT ![s] = IdleSocket]
    ELSE socks

NoSession == 0
SessionIds == 1..MaxSessions

\* A capture attempt: the MediaRecorder's state ("none": no such attempt yet,
\* "failed": the stream was acquired and the MediaRecorder could not be
\* built), how often its stream's tracks were stopped and its AudioContext
\* was closed, whether its level loop and its interval timer are scheduled,
\* its chunk array, and what the closure of its startRecording call captured.
NoCapture ==
    [state |-> "none", stops |-> 0, closes |-> 0, loop |-> FALSE, timer |-> FALSE,
     chunks |-> <<>>, mimeType |-> "", language |-> "", conversationMode |-> ""]

Started == {k \in SessionIds : sessions[k].state # "none"}
Capturing == {k \in SessionIds : sessions[k].state \in {"recording", "stopping"}}

\* Turns already taken or that a running capture will still submit.
TurnsClaimed == (nextTurn - 1) + Len(starting) + Cardinality(Capturing)

\* Envelopes written to a socket and not answered yet, over the sockets S.
RECURSIVE Unanswered(_)
Unanswered(S) ==
    IF S = {} THEN 0
    ELSE LET s == CHOOSE x \in S : TRUE
         IN Len(sockets[s].sent) + Unanswered(S \ {s})

\* Turns that are being sent (their FileReader has not finished) or are sent
\* and not yet answered.
PendingTurns == Len(readers) + Unanswered(SocketIds)

\* No turn is pending and the page shows none as pending.
Idle == ~isProcessing /\ PendingTurns = 0

(* ---------------------------- connection ------------------------------ *)
\* connectWebSocket (part_000:55-88); timers is the number of timers pending
\* when it is called.
connectWebSocket(timers) ==
    IF wsUrlOk
    THEN LET kept == Forget(sockets, socketRef)
             free == {f \in SocketIds : kept[f].readyState = "NONE"}
             s == CHOOSE f \in free : \A g \in free : f <= g
         IN /\ free # {}
            /\ sockets' = [kept EXCEPT ![s] = [readyState |-> "CONNECTING", sent |-> <<>>]]
            /\ socketRef' = s
            /\ connectionStatus' = SetState(connectionStatus, "connecting")
            /\ reconnectTimers' = timers
    ELSE \* new WebSocket throws: the catch block (part_000:83-87)
         /\ timers < MaxTimers
         /\ connectionStatus' = SetState(connectionStatus, "disconnected")
         /\ reconnectTimers' = timers + 1
         /\ UNCHANGED <<sockets, socketRef>>

\* onopen that also writes the envelope of a turn whose send was skipped.
onopenFlush(s) ==
    /\ sockets[s].readyState = "CONNECTING"
    /\ LET queued == turnLog # <<>> /\ ~turnLog[Len(turnLog)].written
           turn == turnLog[Len(turnLog)].turn
       IN /\ sockets' = [sockets EXCEPT ![s] =
                 [readyState |-> "OPEN",
                  sent |-> IF queued
                           THEN <<[env |-> [type |-> "text", data |-> "",
                                            language |-> currentLanguage,
                                            conversationMode |-> conversationMode],
                                   turn |-> turn, idle |-> FALSE]>>
                           ELSE <<>>]]
          /\ turnLog' = IF queued
                        THEN Append(turnLog, [turn |-> turn, written |-> TRUE])
                        ELSE turnLog
    /\ connectionStatus' = SetState(connectionStatus, "connected")
    /\ UNCHANGED <<socketRef, reconnectTimers>>
    /\ UNCHANGED <<envVars, sessVars, prefVars, permVars, recVars, playVars, codecVars>>
    /\ UNCHANGED levelVars

\* socketRef.current.onopen (part_000:61-64)
onopen(s) ==
    /\ sockets[s].readyState = "CONNECTING"
    /\ sockets' = [sockets EXCEPT ![s].readyState = "OPEN"]
    /\ connectionStatus' = SetState(connectionStatus, "connected")
    /\ UNCHANGED <<socketRef, reconnectTimers>>
    /\ UNCHANGED <<envVars, sessVars, prefVars, permVars, recVars, playVars, codecVars>>
    /\ UNCHANGED <<histVars, levelVars>>

\* socketRef.current.onerror (part_000:74-77)
onerror(status) == SetState(status, "disconnected")

\* onclose without the setTimeout of part_000:71.
oncloseNoRetry(s, status) ==
    /\ connectionStatus' = SetState(status, "disconnected")
    /\ reconnectTimers' = reconnectTimers
    /\ sockets' = [sockets EXCEPT ![s] =
                      IF s = socketRef
                      THEN [readyState |-> "CLOSED", sent |-> <<>>]
                      ELSE IdleSocket]
    /\ UNCHANGED socketRef

\* socketRef.current.onclose (part_000:66-72): the socket is closed, what it
\* had in flight is lost.
onclose(s, status) ==
    /\ reconnectTimers < MaxTimers
    /\ connectionStatus' = SetState(status, "disconnected")
    /\ reconnectTimers' = reconnectTimers + 1
    /\ sockets' = [sockets EXCEPT ![s] =
                      IF s = socketRef
                      THEN [readyState |-> "CLOSED", sent |-> <<>>]
                      ELSE IdleSocket]
    /\ UNCHANGED socketRef

\* The transport fails while connecting or open: the browser fires error and
\* then close in one task.
TransportFailed(s) ==
    /\ sockets[s].readyState \in {"CONNECTING", "OPEN"}
    /\ onclose(s, onerror(connectionStatus))
    /\ UNCHANGED <<envVars, sessVars, prefVars, permVars, recVars, playVars, codecVars>>
    /\ UNCHANGED <<histVars, levelVars>>

\* The server starts the closing handshake: readyState becomes CLOSING, no
\* handler runs.
ClosingHandshake(s) ==
    /\ sockets[s].readyState = "OPEN"
    /\ sockets' = [sockets EXCEPT ![s].readyState = "CLOSING"]
    /\ UNCHANGED <<connectionStatus, socketRef, reconnectTimers>>
    /\ UNCHANGED <<envVars, sessVars, prefVars, permVars, recVars, playVars, codecVars>>
    /\ UNCHANGED <<histVars, levelVars>>

\* A closing socket is closed: the browser fires close.
TransportClosed(s) ==
    /\ sockets[s].readyState = "CLOSING"
    /\ onclose(s, connectionStatus)
    /\ UNCHANGED <<envVars, sessVars, prefVars, permVars, recVars, playVars, codecVars>>
    /\ UNCHANGED <<histVars, levelVars>>

\* The reconnect timer fires: setTimeout(connectWebSocket, 3000).
ReconnectTimer ==
    /\ reconnectTimers > 0
    /\ connectWebSocket(reconnectTimers - 1)
    /\ UNCHANGED <<envVars, sessVars, prefVars, permVars, recVars, playVars, codecVars>>
    /\ UNCHANGED <<histVars, levelVars>>

(* ------------------------------ session ------------------------------- *)
\* The envelope with the initial language instead of the selected one.
EnvelopeInitialLanguage(type, data, language, mode) ==
    [type |-> type, data |-> data, language |-> "hinglish", conversationMode |-> mode]

\* The envelope of a turn (part_000:159-164, 180-185).
Envelope(type, data, language, mode) ==
    [type |-> type, data |-> data, language |-> language, conversationMode |-> mode]

\* sendTextMessage (part_000:142-166)
sendTextMessage(text) ==
    IF Trim(text) = "" \/ socketRef = NoSocket
    THEN UNCHANGED <<connVars, sessVars, turnLog>>
    ELSE /\ TurnsClaimed < MaxTurns
         /\ messages' = Append(messages,
                [id |-> now, type |-> "user", text |-> text, turn |-> nextTurn])
         /\ inputText' = ""
         /\ isProcessing' = TRUE
         /\ sockets' = IF SocketOpen
                       THEN [sockets EXCEPT ![socketRef].sent = Append(@,
                               [env |-> Envelope("text", text, currentLanguage,
                                                 conversationMode),
                                turn |-> nextTurn, idle |-> Idle])]
                       ELSE sockets
         /\ turnLog' = Append(turnLog, [turn |-> nextTurn, written |-> SocketOpen])
         /\ nextTurn' = nextTurn + 1
         /\ UNCHANGED <<connectionStatus, socketRef, reconnectTimers, readers>>

\* handleSubmit (part_000:204-207): Enter in the textarea or the send button;
\* both are disabled while isProcessing (part_000:368, 390).
handleSubmit ==
    /\ lifecycle = "mounted"
    /\ ~isProcessing
    /\ sendTextMessage(inputText)
    /\ UNCHANGED <<envVars, prefVars, permVars, recVars, playVars, codecVars>>
    /\ UNCHANGED levelVars

\* The textarea's onChange (part_000:362); disabled while isProcessing.
setInputText(t) ==
    /\ lifecycle = "mounted"
    /\ ~isProcessing
    /\ t # inputText
    /\ inputText' = t
    /\ UNCHANGED <<messages, isProcessing, readers, nextTurn>>
    /\ UNCHANGED <<envVars, connVars, prefVars, permVars, recVars, playVars, codecVars>>
    /\ UNCHANGED <<histVars, levelVars>>

\* A quick-start topic button (part_000:468-473); the buttons are rendered
\* while the transcript is empty and are never disabled.
selectTopic(t) ==
    /\ lifecycle = "mounted"
    /\ messages = <<>>
    /\ t # inputText
    /\ inputText' = t
    /\ UNCHANGED <<messages, isProcessing, readers, nextTurn>>
    /\ UNCHANGED <<envVars, connVars, prefVars, permVars, recVars, playVars, codecVars>>
    /\ UNCHANGED <<histVars, levelVars>>

\* What the server can answer to the envelope of turn t: one of the three
\* events of the protocol, an event of another type, or bytes that are no JSON.
ServerPayloads(t) ==
    {[parses |-> TRUE, type |-> "text_response", response_text |-> r, message |-> "",
      audio_response |-> NoAudio, turn |-> t] : r \in ResponseTexts}
    \cup {[parses |-> TRUE, type |-> "audio_response", response_text |-> r, message |-> "",
           audio_response |-> a, turn |-> t] : r \in ResponseTexts, a \in AudioClips}
    \cup {[parses |-> TRUE, type |-> "error", response_text |-> "", message |-> e,
           audio_response |-> NoAudio, turn |-> t] : e \in ServerErrors}
    \cup {[parses |-> TRUE, type |-> "status", response_text |-> "", message |-> "",
           audio_response |-> NoAudio, turn |-> t]}
    \cup {[parses |-> FALSE, type |-> "", response_text |-> "", message |-> "",
           audio_response |-> NoAudio, turn |-> t]}

\* playAudioResponse that starts nothing.
playAudioResponseNever(clips, audioBase64) == clips

\* playAudioResponse (part_000:192-201): a new Audio element that starts
\* playing at once; when play() is refused, by the browser's autoplay policy
\* or because the clip does not decode, the rejection is logged.
playAudioResponse(clips, audioBase64) ==
    IF canPlay /\ audioBase64 \in DecodableClips THEN Append(clips, audioBase64) ELSE clips

\* handleSocketMessage with setMessages([newMessage]) instead of
\* setMessages(prev => [...prev, newMessage]).
handleSocketMessageLatestOnly(data) ==
    IF ~data.parses
    THEN UNCHANGED <<messages, isProcessing, playing>>
    ELSE /\ messages' = SetState(messages,
                CASE data.type \in {"audio_response", "text_response"} ->
                        <<[id |-> now, type |-> "ai", text |-> data.response_text,
                           audioBase64 |-> data.audio_response, turn |-> data.turn]>>
                  [] data.type = "error" ->
                        <<[id |-> now, type |-> "error", text |-> "Error: " \o data.message,
                           turn |-> data.turn]>>
                  [] OTHER -> messages)
         /\ playing' = IF /\ data.type \in {"audio_response", "text_response"}
                          /\ handlerAudioEnabled
                          /\ data.audio_response # NoAudio
                       THEN playAudioResponse(playing, data.audio_response)
                       ELSE playing
         /\ isProcessing' = SetState(isProcessing, FALSE)

\* handleSocketMessage (part_000:106-139), the one bound to onmessage.
\* JSON.parse throws on data that does not parse: nothing after it runs.
handleSocketMessage(data) ==
    IF ~data.parses
    THEN UNCHANGED <<messages, isProcessing, playing>>
    ELSE /\ messages' = SetState(messages,
                CASE data.type \in {"audio_response", "text_response"} ->
                        Append(messages, [id |-> now, type |-> "ai",
                                          text |-> data.response_text,
                                          audioBase64 |-> data.audio_response,
                                          turn |-> data.turn])
                  [] data.type = "error" ->
                        Append(messages, [id |-> now, type |-> "error",
                                          text |-> "Error: " \o data.message,
                                          turn |-> data.turn])
                  [] OTHER -> messages)
         /\ playing' = IF /\ data.type \in {"audio_response", "text_response"}
                          /\ handlerAudioEnabled
                          /\ data.audio_response # NoAudio
                       THEN playAudioResponse(playing, data.audio_response)
                       ELSE playing
         /\ isProcessing' = SetState(isProcessing, FALSE)

\* socketRef.current.onmessage (part_000:79-81) with event.data = data, the
\* server's answer to the oldest unanswered envelope of socket s.
Deliver(s, data) ==
    /\ sockets[s].readyState \in {"OPEN", "CLOSING"}
    /\ sockets[s].sent # <<>>
    /\ data \in ServerPayloads(Head(sockets[s].sent).turn)
    /\ handleSocketMessage(data)
    /\ sockets' = [sockets EXCEPT ![s].sent = Tail(@)]
    /\ UNCHANGED <<connectionStatus, socketRef, reconnectTimers>>
    /\ UNCHANGED <<inputText, readers, nextTurn>>
    /\ UNCHANGED <<audioEnabled, handlerAudioEnabled, canPlay, isPlayingAudio>>
    /\ UNCHANGED <<envVars, prefVars, permVars, recVars, codecVars>>
    /\ UNCHANGED <<histVars, levelVars>>

\* The server answers the oldest unanswered envelope of socket s.
onmessage(s) ==
    /\ sockets[s].sent # <<>>
    /\ \E data \in ServerPayloads(Head(sockets[s].sent).turn) : Deliver(s, data)

\* toggleLanguage that steps backwards through the list.
toggleLanguageBackwards ==
    /\ lifecycle = "mounted"
    /\ LET currentIndex == CHOOSE i \in 1..Len(Languages) : Languages[i] = currentLanguage
           nextIndex == ((currentIndex + Len(Languages) - 2) % Len(Languages)) + 1
       IN currentLanguage' = Languages[nextIndex]
    /\ UNCHANGED conversationMode
    /\ UNCHANGED <<envVars, connVars, sessVars, permVars, recVars, playVars, codecVars>>
    /\ UNCHANGED <<histVars, levelVars>>

\* toggleLanguage (part_000:215-220)
toggleLanguage ==
    /\ lifecycle = "mounted"
    /\ LET currentIndex == CHOOSE i \in 1..Len(Languages) : Languages[i] = currentLanguage
           nextIndex == (currentIndex % Len(Languages)) + 1
       IN currentLanguage' = Languages[nextIndex]
    /\ UNCHANGED conversationMode
    /\ UNCHANGED <<envVars, connVars, sessVars, permVars, recVars, playVars, codecVars>>
    /\ UNCHANGED <<histVars, levelVars>>

\* The settings panel changes settings.conversationMode; the effect of
\* part_000:40-42 copies it into conversationMode.
setConversationMode(m) ==
    /\ lifecycle = "mounted"
    /\ m # conversationMode
    /\ conversationMode' = m
    /\ UNCHANGED currentLanguage
    /\ UNCHANGED <<envVars, connVars, sessVars, permVars, recVars, playVars, codecVars>>
    /\ UNCHANGED <<histVars, levelVars>>

(* ------------------------------ recorder ------------------------------ *)
\* The preference list of getSupportedMimeType (part_001:135-140).
MimeTypes == <<"audio/webm;codecs=opus", "audio/webm", "audio/mp4", "audio/wav">>

\* getSupportedMimeType (part_001:134-148)
getSupportedMimeType ==
    LET ok == {i \in 1..Len(MimeTypes) : MimeTypes[i] \in supportedTypes}
    IN IF ok = {} THEN "audio/webm"
       ELSE MimeTypes[CHOOSE i \in ok : \A j \in ok : i <= j]

\* FileReader.readAsDataURL and split(',')[1] (part_000:176-177): the base64
\* text of a blob, chunk by chunk.
RECURSIVE Base64(_)
Base64(chunks) ==
    IF chunks = <<>> THEN ""
    ELSE ("c" \o ToString(Head(chunks))) \o Base64(Tail(chunks))

\* cancelAnimationFrame(animationFrameRef.current)
CancelFrame(ss, ref) == IF ref # NoSession THEN [ss EXCEPT ![ref].loop = FALSE] ELSE ss
\* clearInterval(intervalRef.current)
ClearTimer(ss, ref) == IF ref # NoSession THEN [ss EXCEPT ![ref].timer = FALSE] ELSE ss
\* audioContextRef.current.close()
CloseContext(ss, ref) == IF ref # NoSession THEN [ss EXCEPT ![ref].closes = @ + 1] ELSE ss
\* stream.getTracks().forEach(track => track.stop())
StopTracks(ss, k) == [ss EXCEPT ![k].stops = @ + 1]

\* The byte magnitudes getByteFrequencyData writes (0..255): the two ends.
ByteMagnitudes == {0, 255}
\* The contents of dataArray after getByteFrequencyData.
DataArrays == [1..BinCount -> ByteMagnitudes]

\* dataArray.reduce((sum, value) => sum + value, 0) (part_001:71)
RECURSIVE Reduce(_, _)
Reduce(dataArray, n) == IF n = 0 THEN 0 ELSE dataArray[n] + Reduce(dataArray, n - 1)

\* The level is kept as a whole number of units of 1/LevelUnit percent.
LevelUnit == 255 * BinCount

\* average / 255 * 100 with average = sum / bufferLength (part_001:71-72), in
\* units of 1/LevelUnit percent.
Level(dataArray) == Reduce(dataArray, BinCount) * 100

\* requestMicrophonePermission (part_001:31-41), up to its await.
requestMicrophonePermission ==
    /\ lifecycle = "mounted"
    /\ hasPermission = "false"
    /\ ~isProcessing
    /\ permissionRequests < MaxPermissionRequests
    /\ permissionRequests' = permissionRequests + 1
    /\ UNCHANGED hasPermission
    /\ UNCHANGED <<envVars, connVars, sessVars, prefVars, recVars, playVars, codecVars>>
    /\ UNCHANGED <<histVars, levelVars>>

\* requestMicrophonePermission after its await: the user or the platform
\* answers the request.
PermissionAnswered(granted) ==
    /\ permissionRequests > 0
    /\ permissionRequests' = permissionRequests - 1
    /\ hasPermission' = SetState(hasPermission, IF granted THEN "true" ELSE "false")
    /\ UNCHANGED <<envVars, connVars, sessVars, prefVars, recVars, playVars, codecVars>>
    /\ UNCHANGED <<histVars, levelVars>>

\* startRecording (part_001:43-56), up to its await.  The record button is
\* rendered when hasPermission is true, is disabled while isProcessing, and
\* calls startRecording while isRecording is false (part_001:211-213).
startRecording ==
    /\ lifecycle = "mounted"
    /\ hasPermission = "true"
    /\ ~isProcessing
    /\ ~isRecording
    /\ Cardinality(Started) + Len(starting) < MaxSessions
    /\ TurnsClaimed < MaxTurns
    /\ starting' = Append(starting, [language |-> currentLanguage,
                                     conversationMode |-> conversationMode])
    /\ UNCHANGED <<isRecording, sessions, refVars>>
    /\ UNCHANGED <<envVars, connVars, sessVars, prefVars, permVars, playVars, codecVars>>
    /\ UNCHANGED <<histVars, levelVars>>

\* startRecording after its await, getUserMedia resolved (part_001:58-119).
GetUserMediaResolved ==
    /\ starting # <<>>
    /\ starting' = Tail(starting)
    /\ LET k == Cardinality(Started) + 1
           mimeType == getSupportedMimeType
           capture == [NoCapture EXCEPT !.loop = TRUE, !.mimeType = mimeType,
                          !.language = Head(starting).language,
                          !.conversationMode = Head(starting).conversationMode]
       IN /\ audioContextRef' = k
          \* the first updateAudioLevel() call: the analyser has no data yet
          /\ audioLevel' = SetState(audioLevel, Level([n \in 1..BinCount |-> 0]))
          /\ animationFrameRef' = k
          /\ IF mimeType \in supportedTypes
             THEN /\ sessions' = [sessions EXCEPT ![k] =
                        [capture EXCEPT !.state = "recording", !.timer = TRUE]]
                  /\ mediaRecorderRef' = k
                  /\ audioChunksRef' = k
                  /\ intervalRef' = k
                  /\ isRecording' = SetState(isRecording, TRUE)
             ELSE \* new MediaRecorder throws NotSupportedError: the catch block
                  /\ sessions' = [sessions EXCEPT ![k] =
                        [capture EXCEPT !.state = "failed"]]
                  /\ UNCHANGED <<mediaRecorderRef, audioChunksRef, intervalRef,
                                 isRecording>>
    /\ UNCHANGED <<envVars, connVars, sessVars, prefVars, permVars, playVars, codecVars>>
    /\ UNCHANGED histVars

\* startRecording after its await, getUserMedia rejected: the catch block
\* (part_001:121-124).
GetUserMediaRejected ==
    /\ starting # <<>>
    /\ starting' = Tail(starting)
    /\ UNCHANGED <<isRecording, sessions, refVars>>
    /\ UNCHANGED <<envVars, connVars, sessVars, prefVars, permVars, playVars, codecVars>>
    /\ UNCHANGED <<histVars, levelVars>>

\* stopRecording (part_001:127-132); the button calls it while isRecording.
\* MediaRecorder.stop() throws on an inactive recorder.
stopRecording ==
    /\ lifecycle = "mounted"
    /\ hasPermission = "true"
    /\ ~isProcessing
    /\ isRecording
    /\ IF mediaRecorderRef # NoSession /\ sessions[mediaRecorderRef].state = "recording"
       THEN /\ sessions' = [sessions EXCEPT ![mediaRecorderRef].state = "stopping"]
            /\ isRecording' = FALSE
       ELSE UNCHANGED <<sessions, isRecording>>
    /\ UNCHANGED <<starting, refVars>>
    /\ UNCHANGED <<envVars, connVars, sessVars, prefVars, permVars, playVars, codecVars>>
    /\ UNCHANGED <<histVars, levelVars>>

\* sendAudioMessage (part_000:169-189), up to reader.readAsDataURL.
sendAudioMessage(audioBlob, language, mode) ==
    IF socketRef = NoSocket
    THEN UNCHANGED <<isProcessing, readers, nextTurn>>
    ELSE /\ isProcessing' = SetState(isProcessing, TRUE)
         /\ readers' = Append(readers, [data |-> Base64(audioBlob), language |-> language,
                                        conversationMode |-> mode, turn |-> nextTurn,
                                        idle |-> Idle])
         /\ nextTurn' = nextTurn + 1

\* The MediaRecorder's stop task: ondataavailable (part_001:86-90) with the
\* recorded data, of the given size, then onstop (part_001:92-110).
RecorderStopped(k, size) ==
    /\ sessions[k].state = "stopping"
    /\ LET pushed == IF size > 0 /\ audioChunksRef # NoSession
                     THEN [sessions EXCEPT ![audioChunksRef].chunks = Append(@, k)]
                     ELSE sessions
           audioBlob == IF audioChunksRef = NoSession THEN <<>>
                        ELSE pushed[audioChunksRef].chunks
           released == ClearTimer(CancelFrame(CloseContext(StopTracks(pushed, k),
                            audioContextRef), animationFrameRef), intervalRef)
       IN /\ sendAudioMessage(audioBlob, sessions[k].language,
                              sessions[k].conversationMode)
          /\ sessions' = [released EXCEPT ![k].state = "inactive"]
    /\ audioLevel' = SetState(audioLevel, 0)
    /\ UNCHANGED <<isRecording, starting, refVars>>
    /\ UNCHANGED <<messages, inputText>>
    /\ UNCHANGED <<envVars, connVars, prefVars, permVars, playVars, codecVars>>
    /\ UNCHANGED histVars

\* updateAudioLevel (part_001:69-74) as the animation frame callback of the
\* level loop of capture attempt k: it publishes a sample and requests the
\* next frame, whose id it stores in animationFrameRef.
updateAudioLevel(k, dataArray) ==
    /\ sessions[k].loop
    /\ audioLevel' = SetState(audioLevel, Level(dataArray))
    /\ animationFrameRef' = k
    /\ UNCHANGED <<isRecording, starting, sessions, mediaRecorderRef, audioChunksRef,
                   audioContextRef, intervalRef>>
    /\ UNCHANGED <<envVars, connVars, sessVars, prefVars, permVars, playVars, codecVars>>
    /\ UNCHANGED histVars

\* reader.onloadend (part_000:176-187)
ReaderLoaded(i) ==
    /\ i \in 1..Len(readers)
    /\ readers' = [j \in 1..(Len(readers) - 1) |->
                      IF j < i THEN readers[j] ELSE readers[j + 1]]
    /\ sockets' = IF SocketOpen
                  THEN [sockets EXCEPT ![socketRef].sent = Append(@,
                          [env |-> Envelope("audio", readers[i].data, readers[i].language,
                                            readers[i].conversationMode),
                           turn |-> readers[i].turn, idle |-> readers[i].idle])]
                  ELSE sockets
    /\ UNCHANGED <<connectionStatus, socketRef, reconnectTimers>>
    /\ turnLog' = Append(turnLog, [turn |-> readers[i].turn, written |-> SocketOpen])
    /\ UNCHANGED <<messages, inputText, isProcessing, nextTurn>>
    /\ UNCHANGED <<envVars, prefVars, permVars, recVars, playVars, codecVars>>
    /\ UNCHANGED levelVars

(* ------------------------------ playback ------------------------------ *)
\* The audio toggle (part_000:487).
toggleAudio ==
    /\ lifecycle = "mounted"
    /\ audioEnabled' = ~audioEnabled
    /\ UNCHANGED <<handlerAudioEnabled, canPlay, playing, isPlayingAudio>>
    /\ UNCHANGED <<envVars, connVars, sessVars, prefVars, permVars, recVars, codecVars>>
    /\ UNCHANGED <<histVars, levelVars>>

\* handlePlayAudio of the ChatMessage of transcript entry i (ChatMessage.js:9-20);
\* its play button is rendered for an assistant message with audio and is
\* disabled while the entry's isPlayingAudio is true (ChatMessage.js:142-146).
handlePlayAudio(i) ==
    /\ lifecycle = "mounted"
    /\ i \in 1..Len(messages)
    /\ messages[i].type = "ai"
    /\ messages[i].audioBase64 # NoAudio
    /\ i \notin isPlayingAudio
    /\ Len(playing) < MaxClips
    /\ isPlayingAudio' = isPlayingAudio \cup {i}
    /\ playing' = playAudioResponse(playing, messages[i].audioBase64)
    /\ UNCHANGED <<audioEnabled, handlerAudioEnabled, canPlay>>
    /\ UNCHANGED <<envVars, connVars, sessVars, prefVars, permVars, recVars, codecVars>>
    /\ UNCHANGED <<histVars, levelVars>>

\* The timer of handlePlayAudio fires (ChatMessage.js:16-18).
PlayTimer(i) ==
    /\ i \in isPlayingAudio
    /\ isPlayingAudio' = SetState(isPlayingAudio, isPlayingAudio \ {i})
    /\ UNCHANGED <<audioEnabled, handlerAudioEnabled, canPlay, playing>>
    /\ UNCHANGED <<envVars, connVars, sessVars, prefVars, permVars, recVars, codecVars>>
    /\ UNCHANGED <<histVars, levelVars>>

\* The j-th playing clip reaches its end.
AudioEnded(j) ==
    /\ j \in 1..Len(playing)
    /\ playing' = [n \in 1..(Len(playing) - 1) |->
                      IF n < j THEN playing[n] ELSE playing[n + 1]]
    /\ UNCHANGED <<audioEnabled, handlerAudioEnabled, canPlay, isPlayingAudio>>
    /\ UNCHANGED <<envVars, connVars, sessVars, prefVars, permVars, recVars, codecVars>>
    /\ UNCHANGED <<histVars, levelVars>>

(* ------------------------------- codec -------------------------------- *)
\* Strings are sequences of characters here, so that the codec works on them
\* character by character.  The characters of a text: a letter, the two
\* characters JSON escapes with a backslash, and a control character.
JsonChars == {"a", "\"", "\\", "\n"}
JsonTexts == UNION {[1..n -> JsonChars] : n \in 0..MaxTextLen}

\* The keys and the fixed values of an envelope (part_000:159-164, 180-185).
KeyType == <<"t", "y", "p", "e">>
KeyData == <<"d", "a", "t", "a">>
KeyLanguage == <<"l", "a", "n", "g", "u", "a", "g", "e">>
KeyConversationMode == <<"c", "o", "n", "v", "e", "r", "s", "a", "t", "i", "o", "n", "M", "o", "d", "e">>
WireTypes == {<<"t", "e", "x", "t">>, <<"a", "u", "d", "i", "o">>}
WireLanguages == {<<"h", "i", "n", "g", "l", "i", "s", "h">>, <<"h", "i">>, <<"e", "n">>}
WireModes == {<<"g", "u", "i", "d", "a", "n", "c", "e", "_", "c", "o", "u", "n", "s", "e", "l", "o", "r">>, <<"c", "o", "n", "v", "e", "r", "s", "a", "t", "i", "o", "n", "a", "l">>}

\* The envelopes the codec is given.
WireEnvelopes ==
    {Envelope(ty, d, l, m) : ty \in WireTypes, d \in JsonTexts, l \in WireLanguages,
                              m \in WireModes}

\* A string written between quotes as it is, with no escapes.
EscapeNothing(str) == str

\* JSON.stringify of a string without the quotes: QuoteJSONString's escapes.
RECURSIVE Escape(_)
Escape(str) ==
    IF str = <<>> THEN <<>>
    ELSE LET c == Head(str)
         IN (CASE c = "\"" -> <<"\\", "\"">>
               [] c = "\\" -> <<"\\", "\\">>
               [] c = "\n" -> <<"\\", "n">>
               [] OTHER -> <<c>>) \o Escape(Tail(str))

\* JSON.stringify of a string.
Quote(str) == <<"\"">> \o Escape(str) \o <<"\"">>

\* JSON.stringify of an envelope object (part_000:159-164, 180-185): the
\* members in the order of the object literal.
JSONstringify(env) ==
    <<"{">> \o Quote(KeyType) \o <<":">> \o Quote(env.type)
        \o <<",">> \o Quote(KeyData) \o <<":">> \o Quote(env.data)
        \o <<",">> \o Quote(KeyLanguage) \o <<":">> \o Quote(env.language)
        \o <<",">> \o Quote(KeyConversationMode) \o <<":">> \o Quote(env.conversationMode)
        \o <<"}">>

\* JSON.parse, the characters of a string after its opening quote: the
\* string's value and the position after its closing quote.  A raw control
\* character, an unknown escape or the end of the text is a SyntaxError.
RECURSIVE ReadChars(_, _, _)
ReadChars(w, i, acc) ==
    LET fail == [ok |-> FALSE, value |-> acc, next |-> i]
    IN IF i > Len(w) THEN fail
       ELSE IF w[i] = "\"" THEN [ok |-> TRUE, value |-> acc, next |-> i + 1]
       ELSE IF w[i] = "\n" THEN fail
       ELSE IF w[i] = "\\"
            THEN IF i + 1 > Len(w) THEN fail
                 ELSE IF w[i + 1] = "\"" THEN ReadChars(w, i + 2, Append(acc, "\""))
                 ELSE IF w[i + 1] = "\\" THEN ReadChars(w, i + 2, Append(acc, "\\"))
                 ELSE IF w[i + 1] = "n" THEN ReadChars(w, i + 2, Append(acc, "\n"))
                 ELSE fail
       ELSE ReadChars(w, i + 1, Append(acc, w[i]))

\* JSON.parse, a string at position i.
ReadString(w, i) ==
    IF i <= Len(w) /\ w[i] = "\""
    THEN ReadChars(w, i + 1, <<>>)
    ELSE [ok |-> FALSE, value |-> <<>>, next |-> i]

\* JSON.parse, the members of an object from position i: pairs of key and
\* value up to the closing brace, which must end the text.
RECURSIVE ReadMembers(_, _, _)
ReadMembers(w, i, members) ==
    LET fail == [ok |-> FALSE, members |-> members]
        key == ReadString(w, i)
        val == ReadString(w, key.next + 1)
    IN IF ~key.ok \/ key.next > Len(w) \/ w[key.next] # ":" THEN fail
       ELSE IF ~val.ok \/ val.next > Len(w) THEN fail
       ELSE LET more == Append(members, <<key.value, val.value>>)
            IN IF w[val.next] = "," THEN ReadMembers(w, val.next + 1, more)
               ELSE IF w[val.next] = "}" /\ val.next = Len(w)
                    THEN [ok |-> TRUE, members |-> more]
                    ELSE fail

\* message.<key> of a parsed object: the value of the last member with that
\* key, undefined when there is none.
Member(members, key) ==
    LET at == {n \in 1..Len(members) : members[n][1] = key}
    IN IF at = {} THEN <<"undefined">>
       ELSE members[CHOOSE n \in at : \A o \in at : o <= n][2]

\* JSON.parse of a text (part_000:107), read as an envelope.
JSONparse(w) ==
    LET obj == IF Len(w) >= 2 /\ w[1] = "{"
               THEN ReadMembers(w, 2, <<>>)
               ELSE [ok |-> FALSE, members |-> <<>>]
    IN IF obj.ok
       THEN [parses |-> TRUE,
             message |-> Envelope(Member(obj.members, KeyType),
                                  Member(obj.members, KeyData),
                                  Member(obj.members, KeyLanguage),
                                  Member(obj.members, KeyConversationMode))]
       ELSE [parses |-> FALSE, message |-> "SyntaxError"]

\* Nothing has been encoded or parsed yet.
NotEncoded == [parses |-> FALSE, message |-> "none"]

\* An envelope is encoded for the wire.
stringify(env) ==
    /\ codecTurn = NotEncoded
    /\ codecTurn' = env
    /\ wire' = JSONstringify(env)
    /\ UNCHANGED parsed
    /\ UNCHANGED <<envVars, connVars, sessVars, prefVars, permVars, recVars, playVars>>
    /\ UNCHANGED <<histVars, levelVars>>

\* The text on the wire is parsed.
parse ==
    /\ codecTurn # NotEncoded
    /\ parsed = NotEncoded
    /\ parsed' = JSONparse(wire)
    /\ UNCHANGED <<codecTurn, wire>>
    /\ UNCHANGED <<envVars, connVars, sessVars, prefVars, permVars, recVars, playVars>>
    /\ UNCHANGED <<histVars, levelVars>>

(* ---------------------------- lifecycle ------------------------------- *)
\* A millisecond passes.
Tick ==
    /\ now < MaxClock
    /\ now' = now + 1
    /\ UNCHANGED <<lifecycle, wsUrlOk, supportedTypes>>
    /\ UNCHANGED <<connVars, sessVars, prefVars, permVars, recVars, playVars, codecVars>>
    /\ UNCHANGED <<histVars, levelVars>>

\* The page mounts: the connection effect (part_000:52-90) and the
\* recorder's effect (part_001:18-19) run.
Mount ==
    /\ lifecycle = "init"
    /\ lifecycle' = "mounted"
    /\ connectWebSocket(reconnectTimers)
    /\ permissionRequests' = permissionRequests + 1
    /\ UNCHANGED <<wsUrlOk, supportedTypes, now, hasPermission, codecVars>>
    /\ handlerAudioEnabled' = audioEnabled
    /\ UNCHANGED <<audioEnabled, canPlay, playing, isPlayingAudio>>
    /\ UNCHANGED <<sessVars, prefVars, recVars, histVars, levelVars>>

\* The page unmounts: the cleanup of the connection effect (part_000:93-97)
\* and of the recorder's effect (part_001:20-28).
Unmount ==
    /\ lifecycle = "mounted"
    /\ lifecycle' = "unmounted"
    /\ sockets' = IF ReadyState(socketRef) \in {"CONNECTING", "OPEN"}
                  THEN [sockets EXCEPT ![socketRef].readyState = "CLOSING"]
                  ELSE sockets
    /\ sessions' = ClearTimer(CancelFrame(sessions, animationFrameRef), intervalRef)
    /\ UNCHANGED <<connectionStatus, socketRef, reconnectTimers>>
    /\ UNCHANGED <<isRecording, starting, refVars>>
    /\ UNCHANGED <<wsUrlOk, supportedTypes, now, sessVars, prefVars, permVars, playVars,
                   codecVars, histVars, levelVars>>

(* --------------------------- specification ---------------------------- *)
\* The state before the effects run, on a platform with the given capability
\* tables and WebSocket URLs (valid or not).
InitOn(tables, urls) ==
    /\ lifecycle = "init"
    /\ wsUrlOk \in urls
    /\ now = 0
    /\ supportedTypes \in tables
    /\ connectionStatus = "disconnected"
    /\ sockets = [s \in SocketIds |-> IdleSocket]
    /\ socketRef = NoSocket
    /\ reconnectTimers = 0
    /\ messages = <<>>
    /\ inputText = ""
    /\ isProcessing = FALSE
    /\ currentLanguage = "hinglish"
    /\ conversationMode = "guidance_counselor"
    /\ readers = <<>>
    /\ nextTurn = 1
    /\ hasPermission = "null"
    /\ permissionRequests = 0
    /\ isRecording = FALSE
    /\ starting = <<>>
    /\ sessions = [k \in SessionIds |-> NoCapture]
    /\ mediaRecorderRef = NoSession
    /\ audioChunksRef = NoSession
    /\ audioContextRef = NoSession
    /\ animationFrameRef = NoSession
    /\ intervalRef = NoSession
    /\ audioEnabled = TRUE
    /\ handlerAudioEnabled = TRUE
    /\ canPlay \in BOOLEAN
    /\ playing = <<>>
    /\ isPlayingAudio = {}
    /\ codecTurn = NotEncoded
    /\ wire = <<>>
    /\ parsed = NotEncoded
    /\ turnLog = <<>>
    /\ audioLevel = 0

\* The connection's life: the page's effect, the socket's events, the timer.
ConnectionNext ==
    \/ Mount
    \/ ReconnectTimer
    \/ \E s \in SocketIds : onopen(s)
    \/ \E s \in SocketIds : TransportFailed(s)
    \/ \E s \in SocketIds : ClosingHandshake(s)
    \/ \E s \in SocketIds : TransportClosed(s)

\* Text turns and the server's answers.
TextNext ==
    \/ \E t \in InputTexts : setInputText(t)
    \/ \E t \in TopicTexts : selectTopic(t)
    \/ handleSubmit
    \/ \E s \in SocketIds : onmessage(s)

\* The user's settings.
SettingsNext ==
    \/ toggleLanguage
    \/ \E m \in ConversationModes : setConversationMode(m)

\* Voice turns: permission, capture sessions, the finished clip's way to the wire.
VoiceNext ==
    \/ requestMicrophonePermission
    \/ \E granted \in BOOLEAN : PermissionAnswered(granted)
    \/ startRecording
    \/ GetUserMediaResolved
    \/ GetUserMediaRejected
    \/ stopRecording
    \/ \E k \in SessionIds, size \in ChunkSizes : RecorderStopped(k, size)
    \/ \E i \in 1..MaxTurns : ReaderLoaded(i)

\* The text session: connection, text turns, settings, unmounting.
Init == InitOn({{"audio/webm;codecs=opus", "audio/webm"}}, BOOLEAN) /\ canPlay
Next == ConnectionNext \/ Unmount \/ TextNext \/ SettingsNext
Spec == Init /\ [][Next]_vars

\* The voice session: connection, text and voice turns.
VoiceInit == InitOn(CapabilityTables, BOOLEAN) /\ canPlay
VoiceNext2 == ConnectionNext \/ TextNext \/ VoiceNext
VoiceSpec == VoiceInit /\ [][VoiceNext2]_vars

\* Capture on every platform: each subset of the preference list as the
\* platform's capability table.
AllCapabilityTables == SUBSET {MimeTypes[i] : i \in 1..Len(MimeTypes)}
NegotiationInit == InitOn(AllCapabilityTables, {TRUE}) /\ canPlay
NegotiationSpec == NegotiationInit /\ [][Mount \/ VoiceNext]_vars

\* Voice turns on an open connection while the user changes the settings.
SettingsInit == InitOn({{"audio/webm;codecs=opus", "audio/webm"}}, {TRUE}) /\ canPlay
VoiceSettingsNext ==
    \/ Mount
    \/ \E s \in SocketIds : onopen(s)
    \/ \E s \in SocketIds : onmessage(s)
    \/ VoiceNext
    \/ SettingsNext
VoiceSettingsSpec == SettingsInit /\ [][VoiceSettingsNext]_vars

\* The voice session of a page that can be torn down at any moment.
TeardownSpec == VoiceInit /\ [][VoiceNext2 \/ Unmount]_vars

\* Capture with the level meter running, on an open or opening connection.
LevelInit == InitOn(CapabilityTables, {TRUE}) /\ canPlay
LevelNext ==
    \/ Mount
    \/ VoiceNext
    \/ \E k \in SessionIds, dataArray \in DataArrays : updateAudioLevel(k, dataArray)
LevelSpec == LevelInit /\ [][LevelNext]_vars

\* Playback: the audio toggle, replays, clips ending.
PlaybackNext ==
    \/ toggleAudio
    \/ \E i \in 1..(2 * MaxTurns) : handlePlayAudio(i)
    \/ \E i \in 1..(2 * MaxTurns) : PlayTimer(i)
    \/ \E j \in 1..(MaxClips + MaxTurns) : AudioEnded(j)

\* The text session with playback of the answers' audio, in a browser that
\* lets clips start and in one that does not.
PlaybackInit == InitOn({{"audio/webm;codecs=opus", "audio/webm"}}, BOOLEAN)
PlaybackSpec == PlaybackInit /\ [][ConnectionNext \/ TextNext \/ PlaybackNext]_vars

\* The codec on every envelope of the bounded vocabulary.
CodecSpec == Init /\ [][(\E env \in WireEnvelopes : stringify(env)) \/ parse]_vars

\* The text session with the clock running.
ClockSpec == Init /\ [][ConnectionNext \/ TextNext \/ Tick]_vars

\* The text session where the reconnect timer fires once it is due.
FairSpec == Spec /\ WF_vars(ReconnectTimer)

\* The text session with a network and a server that answer: the timer
\* fires, a connecting socket opens unless it fails, an envelope on an open
\* socket is answered unless the socket closes.
LiveSpec ==
    /\ Spec
    /\ WF_vars(ReconnectTimer)
    /\ WF_vars(\E s \in SocketIds : onopen(s))
    /\ WF_vars(\E s \in SocketIds : onmessage(s))

(* ------------------------------- claims ------------------------------- *)
Last(seq) == seq[Len(seq)]

\* C1: at most one turn is pending at any instant; a submission made while a
\* turn is pending is rejected and causes no wire send, so a second pending
\* turn never appears.
C1_SingleFlight == PendingTurns <= 1

\* C2: a non-empty text submitted while the socket is missing, connecting or
\* closed causes no wire send, appends an error message and leaves no turn
\* pending.
C2_NotConnectedIsAnError ==
    [][(handleSubmit /\ Trim(inputText) # "" /\ ~SocketOpen)
          => /\ sockets' = sockets
             /\ messages' # <<>>
             /\ Last(messages').type = "error"
             /\ ~isProcessing']_vars

\* C3: whenever a turn is pending on the page and nothing that could answer
\* it is in flight (the socket closed before the answer, or the send was not
\* performed), the lock is eventually cleared and an error message appended.
C3_NeverStuck ==
    (lifecycle = "mounted" /\ isProcessing /\ PendingTurns = 0)
        ~> \/ lifecycle # "mounted"
           \/ ~isProcessing /\ messages # <<>> /\ Last(messages).type = "error"

\* C4: every answer in the transcript is preceded by the user message of the
\* turn it answers, and user messages appear in the order of their turns.
C4_UserBeforeAnswer ==
    /\ \A j \in 1..Len(messages) :
          messages[j].type \in {"ai", "error"}
            => \E i \in 1..(j - 1) : /\ messages[i].type = "user"
                                     /\ messages[i].turn = messages[j].turn
    /\ \A i, j \in 1..Len(messages) :
          (i < j /\ messages[i].type = "user" /\ messages[j].type = "user")
            => messages[i].turn < messages[j].turn

\* A socket that was connecting, open or closing is closed in this step.
Dropped(s) ==
    /\ sockets[s].readyState \in {"CONNECTING", "OPEN", "CLOSING"}
    /\ sockets'[s].readyState \in {"CLOSED", "NONE"}

\* C5: while the page is mounted, opening the connection sets the state to
\* connecting (when the socket can be built) and the socket's open event sets
\* it to connected; every drop sets it to disconnected with one more
\* reconnect timer pending, and from disconnected a new attempt (state
\* connecting) follows once the timer fires, every time.
C5_ReconnectLoop ==
    /\ [][(lifecycle = "init" /\ lifecycle' = "mounted" /\ wsUrlOk)
              => connectionStatus' = "connecting"]_vars
    /\ [][\A s \in SocketIds :
              (lifecycle = "mounted" /\ sockets[s].readyState = "CONNECTING"
                    /\ sockets'[s].readyState = "OPEN")
                => connectionStatus' = "connected"]_vars
    /\ [][\A s \in SocketIds :
              (lifecycle = "mounted" /\ Dropped(s))
                => /\ connectionStatus' = "disconnected"
                   /\ reconnectTimers' = reconnectTimers + 1]_vars
    /\ (lifecycle = "mounted" /\ wsUrlOk /\ connectionStatus = "disconnected")
          ~> (connectionStatus = "connecting" \/ lifecycle # "mounted")

\* C5 witness: an answer was received, so a socket was open, and the page is
\* connecting again: the connection dropped and a new attempt followed.
C5_Reconnecting ==
    /\ lifecycle = "mounted"
    /\ connectionStatus = "connecting"
    /\ messages # <<>>
    /\ Last(messages).type = "ai"

\* C6: once the cleanup has closed the socket, no reconnect timer is pending
\* and no socket is connecting or open.
C6_CloseIsTerminal ==
    (lifecycle = "unmounted" /\ socketRef # NoSocket)
        => /\ reconnectTimers = 0
           /\ \A s \in SocketIds : sockets[s].readyState \notin {"CONNECTING", "OPEN"}

\* C7: a payload that does not decode appends an error message to the
\* transcript.
C7_MalformedIsAnError ==
    [][\A s \in SocketIds :
          \A data \in ServerPayloads(IF sockets[s].sent = <<>> THEN 0
                                      ELSE Head(sockets[s].sent).turn) :
              (lifecycle = "mounted" /\ ~data.parses /\ Deliver(s, data))
                => /\ Len(messages') = Len(messages) + 1
                   /\ Last(messages').type = "error"]_vars

\* C8: submitting text T while the socket is open and the session idle writes
\* exactly the envelope {type "text", data T, language, conversationMode} to
\* the socket; when a text_response with text R answers it, the transcript
\* ends with the user message T and the assistant message R and the lock is
\* clear.
C8_TextRoundTrip ==
    [][/\ (handleSubmit /\ Trim(inputText) # "" /\ SocketOpen /\ Idle)
            => /\ sockets'[socketRef].sent =
                     <<[env |-> [type |-> "text", data |-> inputText,
                                 language |-> currentLanguage,
                                 conversationMode |-> conversationMode],
                        turn |-> nextTurn, idle |-> TRUE]>>
               /\ \A s \in SocketIds \ {socketRef} : sockets'[s] = sockets[s]
       /\ \A s \in SocketIds :
            \A data \in ServerPayloads(IF sockets[s].sent = <<>> THEN 0
                                        ELSE Head(sockets[s].sent).turn) :
              (/\ lifecycle = "mounted"
               /\ Deliver(s, data)
               /\ data.type = "text_response"
               /\ Head(sockets[s].sent).env.type = "text"
               /\ Head(sockets[s].sent).idle)
                => /\ Len(messages') >= 2
                   /\ messages'[Len(messages') - 1].type = "user"
                   /\ messages'[Len(messages') - 1].text = Head(sockets[s].sent).env.data
                   /\ Last(messages').type = "ai"
                   /\ Last(messages').text = data.response_text
                   /\ ~isProcessing']_vars

\* C8 witness: the transcript of the scenario, after a change of language.
C8_HelloAnswered ==
    /\ Len(messages) = 2
    /\ messages[1].type = "user" /\ messages[1].text = "hello"
    /\ messages[2].type = "ai" /\ messages[2].text = "Hi there"
    /\ ~isProcessing
    /\ currentLanguage = "en"

\* C9: at most one capture session is active or being started.
C9_SingleSession ==
    Len(starting) + Cardinality({k \in SessionIds : sessions[k].state = "recording"}) <= 1

\* C10: no stream is stopped and no audio context closed more than once, and
\* a session that has stopped has had its stream stopped and its audio
\* context closed.
C10_ReleasedOnce ==
    \A k \in SessionIds :
        /\ sessions[k].stops <= 1
        /\ sessions[k].closes <= 1
        /\ sessions[k].state = "inactive"
              => sessions[k].stops = 1 /\ sessions[k].closes = 1

\* C11: at most one audio clip is playing at any instant; a clip that arrives
\* or is replayed while another is playing waits for it to end.
C11_OneClipAtATime == Len(playing) <= 1

\* C12: an answer that arrives while audioEnabled is off starts no playback.
C12_MutedStartsNothing ==
    [][\A s \in SocketIds :
          \A data \in ServerPayloads(IF sockets[s].sent = <<>> THEN 0
                                      ELSE Head(sockets[s].sent).turn) :
              (~audioEnabled /\ Deliver(s, data)) => playing' = playing]_vars

\* An envelope is written to socket s in this step.
Sends(s) == Len(sockets'[s].sent) > Len(sockets[s].sent)

\* C13: whenever an envelope is written to a socket, connectionStatus is
\* "connected".
C13_SendOnlyConnected ==
    [][\A s \in SocketIds : Sends(s) => connectionStatus = "connected"]_vars

\* C14: every accepted submission, text or audio, appends the user message
\* of its turn to the transcript in the same step, whatever the connection's
\* state.
C14_OptimisticEcho ==
    [][nextTurn' = nextTurn + 1
          => /\ Len(messages') = Len(messages) + 1
             /\ Last(messages').type = "user"
             /\ Last(messages').turn = nextTurn]_vars

\* The stream, the audio context, the level loop and the timer of capture
\* attempt k are released.
Released(k) ==
    /\ sessions[k].stops >= 1
    /\ sessions[k].closes >= 1
    /\ ~sessions[k].loop
    /\ ~sessions[k].timer

\* C15: a capture attempt that has ended (stopped, failed after its stream
\* was acquired, or torn down with the page) has released its stream, its
\* audio context, its level loop and its timer.
C15_ReleasedOnEveryPath ==
    \A k \in SessionIds :
        \/ sessions[k].state = "none"
        \/ sessions[k].state \in {"recording", "stopping"} /\ lifecycle = "mounted"
        \/ Released(k)

\* C16: the encoding negotiated for a capture attempt is the first entry of
\* the preference list that the platform supports, and it is one the
\* platform supports.
C16_NegotiatedIsSupported ==
    \A k \in SessionIds :
        sessions[k].state # "none"
          => /\ sessions[k].mimeType \in supportedTypes
             /\ \E i \in 1..Len(MimeTypes) :
                    /\ MimeTypes[i] = sessions[k].mimeType
                    /\ \A j \in 1..(i - 1) : MimeTypes[j] \notin supportedTypes

\* C17: an audio turn is submitted with the language and the conversation
\* mode selected when its recording is finished and submitted, and its
\* envelope carries them.
C17_AudioEnvelopeIsCurrent ==
    [][/\ Len(readers') > Len(readers)
            => /\ Last(readers').language = currentLanguage
               /\ Last(readers').conversationMode = conversationMode
       /\ \A s \in SocketIds :
            (Sends(s) /\ Last(sockets'[s].sent).env.type = "audio")
              => \E i \in 1..Len(readers) :
                    /\ Last(sockets'[s].sent).env.language = readers[i].language
                    /\ Last(sockets'[s].sent).env.conversationMode
                          = readers[i].conversationMode
                    /\ Len(readers') = Len(readers) - 1]_vars

\* C18: every step leaves the previous transcript as a prefix of the new one.
C18_AppendOnly ==
    [][/\ Len(messages) <= Len(messages')
       /\ SubSeq(messages', 1, Len(messages)) = messages]_vars

\* C18 witness: a transcript of two turns, one answered and one refused by
\* the server, on a connection that dropped and is being re-established, after
\* a change of language and of conversation mode.
C18_GrownTranscript ==
    /\ Len(messages) = 4
    /\ messages[1].type = "user" /\ messages[2].type = "ai"
    /\ messages[3].type = "user" /\ messages[4].type = "error"
    /\ connectionStatus = "connecting"
    /\ currentLanguage # "hinglish"
    /\ conversationMode # "guidance_counselor"

\* C19: the ids of successive transcript messages are strictly increasing.
C19_IdsIncrease ==
    \A i, j \in 1..Len(messages) : i < j => messages[i].id < messages[j].id

\* C20: parsing the text that stringify produced for an envelope gives back
\* an envelope with the same type, data, language and conversationMode.
C20_CodecRoundTrip ==
    parsed # NotEncoded
      => /\ parsed.parses
         /\ parsed.message.type = codecTurn.type
         /\ parsed.message.data = codecTurn.data
         /\ parsed.message.language = codecTurn.language
         /\ parsed.message.conversationMode = codecTurn.conversationMode

\* C20 witness: an audio envelope whose data holds a quote and a backslash has
\* been encoded and parsed.
C20_EscapedRoundTrip ==
    /\ parsed # NotEncoded
    /\ codecTurn.type = <<"a", "u", "d", "i", "o">>
    /\ codecTurn.data = <<"\"", "\\">>
    /\ Len(wire) > 0

\* C21: while the page is mounted, a text_response or audio_response appends
\* exactly one assistant message with the answer's text and clears the lock;
\* an error event appends exactly one error message carrying the server's
\* message, clears the lock and starts no playback.
C21_ReceiveAppendsOne ==
    [][\A s \in SocketIds :
          \A data \in ServerPayloads(IF sockets[s].sent = <<>> THEN 0
                                      ELSE Head(sockets[s].sent).turn) :
              (lifecycle = "mounted" /\ Deliver(s, data))
                => /\ data.type \in {"text_response", "audio_response"}
                        => /\ Len(messages') = Len(messages) + 1
                           /\ SubSeq(messages', 1, Len(messages)) = messages
                           /\ Last(messages').type = "ai"
                           /\ Last(messages').text = data.response_text
                           /\ ~isProcessing'
                   /\ data.type = "error"
                        => /\ Len(messages') = Len(messages) + 1
                           /\ SubSeq(messages', 1, Len(messages)) = messages
                           /\ Last(messages').type = "error"
                           /\ Last(messages').text = "Error: " \o data.message
                           /\ ~isProcessing'
                           /\ playing' = playing]_vars

\* C21 witness: an answer with audio was received and played, and the next
\* turn was refused by the server with an error event.
C21_AnswerThenError ==
    /\ lifecycle = "mounted"
    /\ Len(messages) = 4
    /\ messages[2].type = "ai" /\ messages[2].audioBase64 # NoAudio
    /\ messages[4].type = "error" /\ messages[4].text = "Error: overloaded"
    /\ playing # <<>>
    /\ ~isProcessing

\* Sockets that are connecting or open.
Live == {s \in SocketIds : sockets[s].readyState \in {"CONNECTING", "OPEN"}}

\* C22: every step that takes connectionStatus from connecting or connected
\* to disconnected leaves exactly one more reconnect timer pending; at every
\* instant at most one reconnect timer is pending and at most one socket is
\* connecting or open.
C22_OneReconnect ==
    /\ [][(connectionStatus \in {"connecting", "connected"}
              /\ connectionStatus' = "disconnected")
            => reconnectTimers' = reconnectTimers + 1]_vars
    /\ [](reconnectTimers <= 1)
    /\ [](Cardinality(Live) <= 1)

\* C22 witness: the connection dropped after an answer was received on it;
\* the closed socket is still the current one and the reconnect timer is
\* pending.
C22_DroppedAfterAnswer ==
    /\ lifecycle = "mounted"
    /\ connectionStatus = "disconnected"
    /\ reconnectTimers = 1
    /\ Live = {}
    /\ ReadyState(socketRef) = "CLOSED"
    /\ messages # <<>> /\ Last(messages).type = "ai"

\* C23: every turn has at most one send decision, so its envelope is written
\* at most once and a turn whose send was skipped is never written later;
\* and every write to a socket is the send decision of the turn written.
C23_DroppedNotQueued ==
    /\ [](\A i, j \in 1..Len(turnLog) : turnLog[i].turn = turnLog[j].turn => i = j)
    /\ [][\A s \in SocketIds :
              Sends(s) => /\ Len(sockets'[s].sent) = Len(sockets[s].sent) + 1
                          /\ turnLog' = Append(turnLog,
                                [turn |-> Last(sockets'[s].sent).turn, written |-> TRUE])]_vars

\* C23 witness: after an answered turn the connection dropped, the next turn
\* was submitted while the new socket was connecting and was not written;
\* the socket is open now and nothing is on the wire.
C23_SkippedThenConnected ==
    /\ Len(turnLog) = 2
    /\ turnLog[1].written
    /\ ~turnLog[2].written
    /\ SocketOpen
    /\ connectionStatus = "connected"
    /\ sockets[socketRef].sent = <<>>
    /\ isProcessing

\* C24: while the page is mounted, an answer whose audio is to be played
\* appends its assistant message and clears the lock whether or not the clip
\* can be played; a clip that cannot be played starts nothing, and a clip that
\* can be played starts whatever failed before it.
C24_PlaybackFailureSwallowed ==
    [][\A s \in SocketIds :
          \A data \in ServerPayloads(IF sockets[s].sent = <<>> THEN 0
                                      ELSE Head(sockets[s].sent).turn) :
              (/\ lifecycle = "mounted"
               /\ Deliver(s, data)
               /\ data.audio_response # NoAudio
               /\ handlerAudioEnabled)
                => /\ Len(messages') = Len(messages) + 1
                   /\ SubSeq(messages', 1, Len(messages)) = messages
                   /\ Last(messages').type = "ai"
                   /\ Last(messages').audioBase64 = data.audio_response
                   /\ ~isProcessing'
                   /\ playing' = IF canPlay /\ data.audio_response \in DecodableClips
                                 THEN Append(playing, data.audio_response)
                                 ELSE playing]_vars

\* C24 witness: the clip of the first answer did not decode, the clip of
\* the second answer is playing.
C24_PlayedAfterFailure ==
    /\ lifecycle = "mounted"
    /\ Len(messages) = 4
    /\ messages[2].type = "ai" /\ messages[2].audioBase64 \in AudioClips \ DecodableClips
    /\ messages[4].type = "ai" /\ messages[4].audioBase64 \in DecodableClips
    /\ playing = <<messages[4].audioBase64>>
    /\ isPlayingAudio = {}
    /\ ~isProcessing

\* C25: a startRecording call is accepted, and a device stream acquired and a
\* recorder created for it, only while hasPermission is true; hasPermission
\* leaves false only when a permission request the user made after the
\* denial is answered.
C25_StartedOnlyWhenGranted ==
    /\ [][Len(starting') > Len(starting) => hasPermission = "true"]_vars
    /\ [][Cardinality(Started') > Cardinality(Started) => hasPermission = "true"]_vars
    /\ [][(hasPermission = "null" /\ hasPermission' = "false")
              => permissionRequests' = 0]_vars
    /\ [][(hasPermission = "false" /\ hasPermission' # "false")
              => /\ permissionRequests > 0
                 /\ permissionRequests' = permissionRequests - 1]_vars

\* C26: the audio level is always between 0 and 100 percent; a level sample
\* is published only while a capture session is recording or stopping; and
\* the level is 0 after a session's stop handler has run.
C26_LevelInRange ==
    /\ [](0 <= audioLevel /\ audioLevel <= 100 * LevelUnit)
    /\ [][\A k \in SessionIds :
              (lifecycle = "mounted" /\ sessions[k].state = "stopping"
                    /\ sessions'[k].state = "inactive")
                => audioLevel' = 0]_vars
    /\ [][\A k \in SessionIds, dataArray \in DataArrays :
              updateAudioLevel(k, dataArray) => Capturing # {}]_vars

\* C27: when the stop task of a capture session runs, exactly one clip is
\* handed to sendAudioMessage, and it holds exactly the non-empty data that
\* session recorded, no chunk of another session.
C27_OneClipPerSession ==
    [][\A k \in SessionIds, size \in ChunkSizes :
          (RecorderStopped(k, size) /\ socketRef # NoSocket)
            => /\ Len(readers') = Len(readers) + 1
               /\ SubSeq(readers', 1, Len(readers)) = readers
               /\ Last(readers').data = Base64(IF size > 0 THEN <<k>> ELSE <<>>)]_vars

\* The language after the given one in the cycle hinglish -> hi -> en -> hinglish.
Toggled(l) ==
    CASE l = "hinglish" -> "hi"
      [] l = "hi" -> "en"
      [] l = "en" -> "hinglish"

\* C28: the language is always one of hinglish, hi, en; three toggles from
\* it lead back to it; toggleLanguage, the only step that changes it, sets
\* it to the next of the cycle and changes neither the transcript, nor the
\* lock, nor the connection.
C28_LanguageCycle ==
    /\ [](/\ currentLanguage \in {"hinglish", "hi", "en"}
          /\ Toggled(Toggled(Toggled(currentLanguage))) = currentLanguage)
    /\ [][(toggleLanguage \/ currentLanguage' # currentLanguage)
            => /\ currentLanguage' = Toggled(currentLanguage)
               /\ messages' = messages
               /\ isProcessing' = isProcessing
               /\ connVars' = connVars]_vars

\* C28 witness: a turn sent in Hindi is pending on an open connection and
\* the language is English now: the user toggled twice, the second time
\* while the turn was pending.
C28_ToggledWhilePending ==
    /\ currentLanguage = "en"
    /\ isProcessing
    /\ SocketOpen
    /\ connectionStatus = "connected"
    /\ Len(sockets[socketRef].sent) = 1
    /\ sockets[socketRef].sent[1].env.language = "hi"

\* C29: every step that takes isProcessing from true to false appends
\* exactly one assistant or error message to the transcript.
C29_LockReleasedWithEntry ==
    [][(isProcessing /\ ~isProcessing')
          => /\ Len(messages') = Len(messages) + 1
             /\ SubSeq(messages', 1, Len(messages)) = messages
             /\ Last(messages').type \in {"ai", "error"}]_vars

\* C30: the stop task of capture session a leaves every other session that
\* is recording as it was: its audio context open, its level loop and its
\* timer scheduled, its chunk buffer unchanged.
C30_CleanupIsOwn ==
    [][\A a \in SessionIds, size \in ChunkSizes :
          RecorderStopped(a, size)
            => \A b \in SessionIds \ {a} :
                  sessions[b].state = "recording" => sessions'[b] = sessions[b]]_vars

\* The stop control of the recorder: the record button is rendered, shows
\* the stop icon and is not disabled.
StopControlEnabled == hasPermission = "true" /\ isRecording /\ ~isProcessing

\* C31: in every state in which a capture session is recording, the stop
\* control is enabled, also while a text turn is pending.
C31_StopAlwaysEnabled ==
    (lifecycle = "mounted" /\ \E k \in SessionIds : sessions[k].state = "recording")
        => StopControlEnabled

\* The empty text and the texts of white space only.
BlankTexts == {"", " "}

\* C32: submitting a blank text changes neither the transcript, nor the
\* input text, nor the lock, nor the connection, and writes nothing to a
\* socket; so no user message and no envelope ever carries a blank text.
C32_BlankSubmitIsNoOp ==
    /\ [][(handleSubmit /\ inputText \in BlankTexts)
            => /\ messages' = messages
               /\ inputText' = inputText
               /\ isProcessing' = isProcessing
               /\ connVars' = connVars
               /\ turnLog' = turnLog]_vars
    /\ [](\A i \in 1..Len(messages) :
              messages[i].type = "user" => messages[i].text \notin BlankTexts)
    /\ [](\A s \in SocketIds : \A i \in 1..Len(sockets[s].sent) :
              sockets[s].sent[i].env.data \notin BlankTexts)

\* C32 witness: after an answered turn the user has typed a blank text on an
\* open connection with the lock clear, where Enter submits it.
C32_BlankTyped ==
    /\ lifecycle = "mounted"
    /\ inputText = " "
    /\ ~isProcessing
    /\ SocketOpen
    /\ Len(messages) = 2 /\ messages[2].type = "ai"
    /\ ENABLED (handleSubmit /\ inputText \in BlankTexts)
====
